---- MODULE Spec2Model ----
(***************************************************************************)
(* Model of evo_monitor.py: a long-running process that scans the EVO news *)
(* page and the TDnet daily listing, alerts a webhook about new relevant   *)
(* items and keeps the keys it alerted in .evo_monitor_state.json.         *)
(*                                                                         *)
(* Text is a sequence of one-character strings.  A character outside       *)
(* ASCII is written by its code point ("U7B2C").                           *)
(***************************************************************************)
EXTENDS Integers, Sequences, FiniteSets, Bags, TLC

VARIABLES pc, webhook, state, file, alerted, persisted, lastRun, twin

vars == <<pc, webhook, state, file, alerted, persisted, lastRun, twin>>

\* ---------------------------------------------------------------- bounds
\* longest page (number of list items / anchors) a fetch returns
MaxItems == 2

\* ---------------------------------------------------------------- config
EVO_NEWS_URL ==
  <<"h","t","t","p","s",":","/","/","w","w","w",".","e","v","o","f","i","n","a","n","c","i","a","l","g","r","o","u","p",".","c","o","m","/","e","j","s","/","n","e","w","s","/">>

TDNET_BASE ==
  <<"h","t","t","p","s",":","/","/","r","e","l","e","a","s","e",".","t","d","n","e","t",".","i","n","f","o">>

KEYWORDS ==
  << <<"E","V","O"," ","F","U","N","D">>,
     <<"E","v","o","l","u","t","i","o","n"," ","C","a","p","i","t","a","l">>,
     <<"U7B2C","U4E09","U8005","U5272","U5F53">>,
     <<"U65B0","U682A","U4E88","U7D04","U6A29">>,
     <<"U884C","U4F7F","U4FA1","U984D">>,
     <<"U6708","U9593","U884C","U4F7F","U72B6","U6CC1">> >>

START_HOUR == 8

END_HOUR == 17

\* the literal list of scan_tdnet's filename test
TdnetWords ==
  << <<"e","v","o">>, <<"e","v","o","l","u","t","i","o","n">> >>

\* ------------------------------------------------------------------ text
UpperChars ==
  <<"A","B","C","D","E","F","G","H","I","J","K","L","M","N","O","P","Q","R","S","T","U","V","W","X","Y","Z">>

LowerChars ==
  <<"a","b","c","d","e","f","g","h","i","j","k","l","m","n","o","p","q","r","s","t","u","v","w","x","y","z">>

\* str.lower() on one character
LowerChar(c) ==
  IF \E i \in 1..Len(UpperChars) : UpperChars[i] = c
  THEN LowerChars[CHOOSE i \in 1..Len(UpperChars) : UpperChars[i] = c]
  ELSE c

\* str.lower()
Lower(s) == [i \in 1..Len(s) |-> LowerChar(s[i])]

\* k in s (substring test)
Contains(k, s) ==
  \E i \in 0..(Len(s) - Len(k)) : SubSeq(s, i + 1, i + Len(k)) = k

\* s.startswith(p)
StartsWith(s, p) == Len(p) <= Len(s) /\ SubSeq(s, 1, Len(p)) = p

\* s.endswith(p)
EndsWith(s, p) ==
  Len(p) <= Len(s) /\ SubSeq(s, Len(s) - Len(p) + 1, Len(s)) = p

\* x in list
InList(x, list) == \E i \in 1..Len(list) : list[i] = x

\* decimal digits of a natural number, str(n)
DigitChars == <<"0","1","2","3","4","5","6","7","8","9">>

RECURSIVE Str(_)
Str(n) ==
  IF n < 10 THEN <<DigitChars[n + 1]>>
  ELSE Str(n \div 10) \o <<DigitChars[(n % 10) + 1]>>

\* f"{n:02d}"
Pad2(n) == IF n < 10 THEN <<"0">> \o Str(n) ELSE Str(n)

\* ---------------------------------------------------------------- urljoin
Scheme == <<"h","t","t","p","s",":","/","/">>

\* index of the last "/" of s (0 when there is none)
LastSlash(s) ==
  IF \E i \in 1..Len(s) : s[i] = "/"
  THEN CHOOSE i \in 1..Len(s) : s[i] = "/" /\ \A j \in (i + 1)..Len(s) : s[j] # "/"
  ELSE 0

\* index of the first "/" after the scheme's "//" (Len+1 when the URL has no path)
PathStart(s) ==
  IF \E i \in (Len(Scheme) + 1)..Len(s) : s[i] = "/"
  THEN CHOOSE i \in (Len(Scheme) + 1)..Len(s) :
         s[i] = "/" /\ \A j \in (Len(Scheme) + 1)..(i - 1) : s[j] # "/"
  ELSE Len(s) + 1

\* urllib.parse.urljoin for an absolute https base and a reference that is
\* empty, absolute, rooted ("/x") or a plain relative path ("x.pdf")
urljoin(base, url) ==
  IF url = <<>> THEN base
  ELSE IF StartsWith(url, Scheme) THEN url
  ELSE IF url[1] = "/" THEN SubSeq(base, 1, PathStart(base) - 1) \o url
  ELSE SubSeq(base, 1, LastSlash(base)) \o url

\* ---------------------------------------------------------- state helpers
\* the default of load_state: {"evo_news": [], "tdnet": [], "exercise_flags": {}}
EmptyState == [evo_news |-> <<>>, tdnet |-> <<>>, exercise_flags |-> <<>>]

KeyEvoNews == <<"e","v","o","_","n","e","w","s">>

KeyTdnet == <<"t","d","n","e","t">>

KeyExerciseFlags == <<"e","x","e","r","c","i","s","e","_","f","l","a","g","s">>

\* one token of the JSON text: punctuation, or a string with its characters
Tok(kind, chars) == [k |-> kind, v |-> chars]

Punct(kind) == Tok(kind, <<>>)

\* a serialiser that loses the last element of every array
DumpsListDropsLast(list) ==
  <<Punct("[")>> \o [i \in 1..(Len(list) - 1) |-> Tok("str", list[i])] \o <<Punct("]")>>

\* a JSON array of strings
DumpsList(list) ==
  <<Punct("[")>> \o [i \in 1..Len(list) |-> Tok("str", list[i])] \o <<Punct("]")>>

\* json.dumps(state, ensure_ascii=False, indent=2), as its token sequence
JsonDumps(st) ==
  <<Punct("{"), Tok("str", KeyEvoNews)>> \o DumpsList(st.evo_news)
    \o <<Tok("str", KeyTdnet)>> \o DumpsList(st.tdnet)
    \o <<Tok("str", KeyExerciseFlags), Punct("{"), Punct("}"), Punct("}")>>

ParseError == [ok |-> FALSE, value |-> <<>>, next |-> 0]

\* the elements of an array, from the token after "[" up to the matching "]"
RECURSIVE ParseArray(_, _, _)
ParseArray(text, i, acc) ==
  IF i > Len(text) THEN ParseError
  ELSE IF text[i].k = "]" THEN [ok |-> TRUE, value |-> acc, next |-> i + 1]
  ELSE IF text[i].k = "str" THEN ParseArray(text, i + 1, Append(acc, text[i].v))
  ELSE ParseError

\* the members of the top-level object, from the token after "{" up to "}"
RECURSIVE ParseMembers(_, _, _)
ParseMembers(text, i, obj) ==
  IF i > Len(text) THEN ParseError
  ELSE IF text[i].k = "}" THEN [ok |-> TRUE, value |-> obj, next |-> i + 1]
  ELSE IF text[i].k # "str" \/ i + 1 > Len(text) THEN ParseError
  ELSE IF text[i + 1].k = "["
       THEN LET arr == ParseArray(text, i + 2, <<>>)
            IN  IF ~arr.ok THEN ParseError
                ELSE IF text[i].v = KeyEvoNews
                     THEN ParseMembers(text, arr.next, [obj EXCEPT !.evo_news = arr.value])
                ELSE IF text[i].v = KeyTdnet
                     THEN ParseMembers(text, arr.next, [obj EXCEPT !.tdnet = arr.value])
                ELSE ParseError
  ELSE IF text[i + 1].k = "{" /\ i + 2 <= Len(text) /\ text[i + 2].k = "}"
            /\ text[i].v = KeyExerciseFlags
       THEN ParseMembers(text, i + 3, [obj EXCEPT !.exercise_flags = <<>>])
  ELSE ParseError

\* json.loads: the object the text denotes, or a JSONDecodeError (ok = FALSE)
\* when the text is empty, cut short or followed by extra data
JsonLoads(text) ==
  IF Len(text) = 0 \/ text[1].k # "{" THEN ParseError
  ELSE LET r == ParseMembers(text, 2, EmptyState)
       IN  IF r.ok /\ r.next = Len(text) + 1 THEN r ELSE ParseError

\* STATE_FILE does not exist
NoFile == [exists |-> FALSE, text |-> <<>>]

\* load_state() that ignores the state file
load_state_Fresh(f) == [raised |-> FALSE, value |-> EmptyState]

\* load_state(): raised = TRUE is an exception leaving load_state
load_state(f) ==
  IF f.exists
  THEN LET r == JsonLoads(f.text)
       IN  [raised |-> ~r.ok, value |-> IF r.ok THEN r.value ELSE EmptyState]
  ELSE [raised |-> FALSE, value |-> EmptyState]

\* what the file system does with one write_text call
WriteOutcomes == {"ok", "denied", "partial"}

\* a save_state that returns without writing
save_state_Skipped(f, st, w) == [raised |-> FALSE, file |-> f]

\* save_state(state): write_text opens the file for writing (truncating it) and
\* writes the text; it raises when the open ("denied") or the write fails
\* ("partial": the first half of the text written)
save_state(f, st, w) ==
  LET text == JsonDumps(st)
  IN  CASE w = "ok"        -> [raised |-> FALSE, file |-> [exists |-> TRUE, text |-> text]]
        [] w = "denied"    -> [raised |-> TRUE, file |-> f]
        [] OTHER           -> [raised |-> TRUE,
                               file |-> [exists |-> TRUE,
                                         text |-> SubSeq(text, 1, Len(text) \div 2)]]

\* ------------------------------------------------------------------ notify
NoUrl == <<>>

\* payload = {"content": f"{msg}\n{url}" if url else msg}
Payload(msg, url) == IF url # NoUrl THEN msg \o <<"\n">> \o url ELSE msg

\* how one notify call ends: printed (WEBHOOK_URL unset), posted, or failed
\* (requests.post or raise_for_status raised; caught and logged)
NotifyOutcome(hook, delivered) ==
  IF ~hook THEN "printed" ELSE IF delivered THEN "posted" ELSE "failed"

\* notify without its try/except: a failed post raises to the caller
NotifyRaisesOnFailure(hook, delivered) == hook /\ ~delivered

\* does an exception leave notify?  `except Exception` catches the post's
NotifyRaises(hook, delivered) == FALSE

\* the fetch without its try/except
FetchRaisesUncaught(fetch) == ~fetch.ok

\* does an exception leave the try block around requests.get?  `except
\* Exception` catches it
FetchRaises(fetch) == FALSE

\* the record of one notify(msg, url) call
notify(hook, msg, url, delivered) ==
  [ev |-> "notify", msg |-> msg, url |-> url, content |-> Payload(msg, url),
   out |-> NotifyOutcome(hook, delivered), raised |-> NotifyRaises(hook, delivered)]

\* the record of one save_state call
SaveEvent(sv) ==
  [ev |-> "save", msg |-> <<>>, url |-> NoUrl, content |-> <<>>,
   out |-> IF sv.raised THEN "failed" ELSE "ok", raised |-> sv.raised]

\* ------------------------------------------------------------ the inputs
\* sequences over S of length at most n
SeqsUpTo(S, n) == UNION {[1..k -> S] : k \in 0..n}

\* one <li> of div.news-list: its stripped text, whether it holds an <a>, and
\* that anchor's href
Item(title, a, href) == [title |-> title, a |-> a, href |-> href]

TitleUpper == <<"E","V","O"," ","F","U","N","D">>

TitleLower == <<"e","v","o"," ","f","u","n","d">>

TitleKanji ==
  <<"U7B2C","U4E09","U8005","U5272","U5F53","U306E","U304A","U77E5","U3089","U305B">>

\* a headline followed by the article's text: 2010 characters
TitleLong == TitleKanji \o [i \in 1..2000 |-> "U3002"]

TitleCapital == <<"E","v","o","l","u","t","i","o","n"," ","C","a","p","i","t","a","l">>

HrefTwo == <<"2",".","h","t","m","l">>

\* an absolute href on the news page that points at a TDnet document
HrefTdnetPdf ==
  <<"h","t","t","p","s",":","/","/","r","e","l","e","a","s","e",".","t","d","n","e","t",".","i","n","f","o","/","o","l","d","/","2","0","2","5","0","7","/","1","4","/","e","v","o",".","p","d","f">>

EvoItems ==
  { Item(TitleCapital, TRUE, HrefTdnetPdf),
    Item(TitleLower, TRUE, HrefTwo),
    Item(<<>>, TRUE, HrefTwo),
    Item(TitleUpper, FALSE, <<>>),
    Item(TitleLong, FALSE, <<>>) }

\* the hrefs of the anchors of a TDnet listing
TdnetHrefs ==
  { <<"e","v","o",".","p","d","f">>,
    <<"i","r",".","p","d","f">>,
    <<"a",".","h","t","m","l">> }

\* the result of requests.get(...).text followed by the selection of the
\* elements: a raised exception (timeout, connection error) or the elements
FetchFailed == [ok |-> FALSE, doc |-> <<>>]

Fetched(doc) == [ok |-> TRUE, doc |-> doc]

EvoFetches == {FetchFailed} \cup {Fetched(d) : d \in SeqsUpTo(EvoItems, MaxItems)}

TdnetFetches == {FetchFailed} \cup {Fetched(d) : d \in SeqsUpTo(TdnetHrefs, MaxItems)}

\* whether the webhook accepts the k-th post of a scan that makes n of them
Deliveries(n) == [1..n -> BOOLEAN]

AllDelivered == [k \in 1..MaxItems |-> TRUE]

\* dt.datetime.now(JST): the hours at both ends of the window, one date
Hours == {7, 8, 17}

Dates == {[y |-> 2025, m |-> 7, d |-> 14]}

\* ------------------------------------------------------------ the process
\* the record of the last job or start-up step: which one, the hour it read,
\* how its fetch ended ("ok", "failed", "none" when it made none), the
\* elements it got, the dedup state it started from, its notify and save
\* calls in order, the call whose exception left it ("none" when it returned)
\* and the source of the job right before it when that job was a scan whose
\* fetch failed ("none" otherwise)
Run(src, hour, fetch, page, before, events, raised, after) ==
  [src |-> src, hour |-> hour, fetch |-> fetch, page |-> page,
   before |-> before, events |-> events, raised |-> raised, after |-> after]

NoRun == Run("none", 0, "none", <<>>, EmptyState, <<>>, "none", "none")

Sources == {"evo_news", "tdnet"}

\* the source of job r when r was a scan whose fetch failed
FailedSource(r) == IF r.src \in Sources /\ r.fetch = "failed" THEN r.src ELSE "none"

\* the (source, key) pairs of the notify calls among events
AlertKeys(src, events) ==
  {<<src, events[i].url>> : i \in {j \in 1..Len(events) : events[j].ev = "notify"}}

\* the same pairs as a bag: one copy per call
RECURSIVE AlertsOf(_, _)
AlertsOf(src, events) ==
  IF events = <<>> THEN EmptyBag
  ELSE IF Head(events).ev = "notify"
       THEN SetToBag({<<src, Head(events).url>>}) (+) AlertsOf(src, Tail(events))
       ELSE AlertsOf(src, Tail(events))

\* a scan that saves before it notifies
RunEventsSaveFirst(calls, save) == <<save>> \o calls

\* the calls of one scan in program order: the loop's notify calls, then
\* save_state
RunEvents(calls, save) == Append(calls, save)

\* p after a scan of src whose loop ended as r; the scan then saves (outcome w)
AfterLoop(p, src, hour, fetch, page, r, st, w) ==
  LET sv == save_state(p.file, st, w)
  IN  IF r.raised
      THEN [p EXCEPT !.pc = "crashed", !.state = st,
                     !.alerted = @ (+) AlertsOf(src, r.events),
                     !.lastRun = Run(src, hour, fetch, page, p.state, r.events,
                                     "notify", p.lastRun.after)]
      ELSE [p EXCEPT !.pc = IF sv.raised THEN "crashed" ELSE "returned",
                     !.state = st, !.file = sv.file,
                     !.alerted = @ (+) AlertsOf(src, r.events),
                     !.persisted = IF sv.raised THEN @ ELSE @ \cup AlertKeys(src, r.events),
                     !.lastRun = Run(src, hour, fetch, page, p.state,
                                     RunEvents(r.events, SaveEvent(sv)),
                                     IF sv.raised THEN "save" ELSE "none",
                                     p.lastRun.after)]

\* --- 1. EVO Japan news
\* state["evo_news"]
EvoSeen(st) == st.evo_news

\* link = urljoin(EVO_NEWS_URL, href) if li.find("a") else EVO_NEWS_URL
EvoLink(li) == IF li.a THEN urljoin(EVO_NEWS_URL, li.href) ELSE EVO_NEWS_URL

\* any(k in title for k in KEYWORDS)
IsRelevantEvo(title) == \E i \in 1..Len(KEYWORDS) : Contains(KEYWORDS[i], title)

\* a membership test that finds every key new
IsNewAlways(key, list) == TRUE

\* key not in state[source]
IsNew(key, list) == ~InList(key, list)

\* a scan that forgets the append
MarkSeenForgets(list, key) == list

\* state[source].append(key)
MarkSeen(list, key) == Append(list, key)

\* the link and the keyword test of every list item a page can hold
EvoLinkOf == [li \in EvoItems |-> EvoLink(li)]

EvoRelevantOf == [li \in EvoItems |-> IsRelevantEvo(li.title)]

\* f"[EVO NEWS] {title}"
EvoMsg(title) == <<"[","E","V","O"," ","N","E","W","S","]"," ">> \o title

\* a loop that marks a key seen only when its post was accepted
RECURSIVE EvoLoopMarksDelivered(_, _, _, _, _, _)
EvoLoopMarksDelivered(items, i, list, events, hook, deliver) ==
  IF i > Len(items) THEN [list |-> list, events |-> events, raised |-> FALSE]
  ELSE LET link == EvoLinkOf[items[i]]
       IN  IF EvoRelevantOf[items[i]] /\ IsNew(link, list)
           THEN LET n == notify(hook, EvoMsg(items[i].title), link, deliver[Len(events) + 1])
                IN  EvoLoopMarksDelivered(items, i + 1,
                      IF n.out = "failed" THEN list ELSE MarkSeen(list, link),
                      Append(events, n), hook, deliver)
           ELSE EvoLoopMarksDelivered(items, i + 1, list, events, hook, deliver)

\* the for loop of scan_evo_news from item i on
RECURSIVE EvoLoop(_, _, _, _, _, _)
EvoLoop(items, i, list, events, hook, deliver) ==
  IF i > Len(items) THEN [list |-> list, events |-> events, raised |-> FALSE]
  ELSE LET title == items[i].title
           link  == EvoLinkOf[items[i]]
       IN  IF EvoRelevantOf[items[i]] /\ IsNew(link, list)
           THEN LET n == notify(hook, EvoMsg(title), link, deliver[Len(events) + 1])
                IN  IF n.raised
                    THEN [list |-> list, events |-> Append(events, n), raised |-> TRUE]
                    ELSE EvoLoop(items, i + 1, MarkSeen(list, link),
                                 Append(events, n), hook, deliver)
           ELSE EvoLoop(items, i + 1, list, events, hook, deliver)

\* scan_evo_news() run by process p
scan_evo_news(p, fetch, deliver, w) ==
  IF ~fetch.ok
  THEN IF FetchRaises(fetch)
       THEN [p EXCEPT !.pc = "crashed",
                      !.lastRun = Run("evo_news", 0, "failed", <<>>, p.state, <<>>,
                                      "fetch", p.lastRun.after)]
       ELSE [p EXCEPT !.pc = "returned",
                      !.lastRun = Run("evo_news", 0, "failed", <<>>, p.state, <<>>,
                                      "none", p.lastRun.after)]
  ELSE LET r  == EvoLoop(fetch.doc, 1, EvoSeen(p.state), <<>>, p.webhook, deliver)
           st == [p.state EXCEPT !.evo_news = r.list]
       IN  AfterLoop(p, "evo_news", 0, "ok", fetch.doc, r, st, w)

\* --- 2. TDnet filings
\* one key space shared by both sources
TdnetSeenShared(st) == st.evo_news \o st.tdnet

\* state["tdnet"]
TdnetSeen(st) == st.tdnet

\* f"{TDNET_BASE}/old/{y}{m:02d}/{d:02d}/index.html"
ListingUrl(date) ==
  TDNET_BASE \o <<"/","o","l","d","/">> \o Str(date.y) \o Pad2(date.m) \o <<"/">>
    \o Pad2(date.d) \o <<"/","i","n","d","e","x",".","h","t","m","l">>

\* the anchors whose href ends with ".pdf", joined to the listing URL
RECURSIVE PdfsOf(_, _)
PdfsOf(listing_url, hrefs) ==
  IF hrefs = <<>> THEN <<>>
  ELSE IF EndsWith(Head(hrefs), <<".","p","d","f">>)
       THEN <<urljoin(listing_url, Head(hrefs))>> \o PdfsOf(listing_url, Tail(hrefs))
       ELSE PdfsOf(listing_url, Tail(hrefs))

\* the pdf URLs of every listing a fetch can return, per date
PdfsOfListing ==
  [date \in Dates |-> [doc \in SeqsUpTo(TdnetHrefs, MaxItems) |->
                         PdfsOf(ListingUrl(date), doc)]]

\* list_today_tdnet_pdfs(): [] when the fetch raised
list_today_tdnet_pdfs(date, fetch) ==
  IF ~fetch.ok THEN <<>> ELSE PdfsOfListing[date][fetch.doc]

\* a window that still holds at END_HOUR
InWindowClosed(hour) == START_HOUR <= hour /\ hour <= END_HOUR

\* START_HOUR <= now.hour < END_HOUR
InWindow(hour) == START_HOUR <= hour /\ hour < END_HOUR

\* any(k.lower() in pdf_url.lower() for k in ["evo", "evolution"])
IsRelevantTdnet(pdf_url) ==
  \E i \in 1..Len(TdnetWords) : Contains(Lower(TdnetWords[i]), Lower(pdf_url))

\* the filename test of every pdf URL a listing can yield
TdnetRelevantOf ==
  [u \in {urljoin(ListingUrl(date), h) : date \in Dates, h \in TdnetHrefs} |->
     IsRelevantTdnet(u)]

TdnetMsg == <<"[","T","D","N","E","T","]"," ","E","V","O","U95A2","U9023",":"," ">>

\* the for loop of scan_tdnet from the i-th pdf on
RECURSIVE TdnetLoop(_, _, _, _, _, _)
TdnetLoop(pdfs, i, list, events, hook, deliver) ==
  IF i > Len(pdfs) THEN [list |-> list, events |-> events, raised |-> FALSE]
  ELSE LET pdf_url == pdfs[i]
       IN  IF ~IsNew(pdf_url, list)
           THEN TdnetLoop(pdfs, i + 1, list, events, hook, deliver)
           ELSE IF TdnetRelevantOf[pdf_url]
           THEN LET n == notify(hook, TdnetMsg, pdf_url, deliver[Len(events) + 1])
                IN  IF n.raised
                    THEN [list |-> list, events |-> Append(events, n), raised |-> TRUE]
                    ELSE TdnetLoop(pdfs, i + 1, MarkSeen(list, pdf_url),
                                   Append(events, n), hook, deliver)
           ELSE TdnetLoop(pdfs, i + 1, list, events, hook, deliver)

\* scan_tdnet() run by process p
scan_tdnet(p, hour, date, fetch, deliver, w) ==
  IF ~InWindow(hour)
  THEN [p EXCEPT !.pc = "returned",
                 !.lastRun = Run("tdnet", hour, "none", <<>>, p.state, <<>>,
                                 "none", p.lastRun.after)]
  ELSE IF ~fetch.ok /\ FetchRaises(fetch)
  THEN [p EXCEPT !.pc = "crashed",
                 !.lastRun = Run("tdnet", hour, "failed", <<>>, p.state, <<>>,
                                 "fetch", p.lastRun.after)]
  ELSE LET pdfs == list_today_tdnet_pdfs(date, fetch)
           r    == TdnetLoop(pdfs, 1, TdnetSeen(p.state), <<>>, p.webhook, deliver)
           st   == [p.state EXCEPT !.tdnet = r.list]
       IN  AfterLoop(p, "tdnet", hour, IF fetch.ok THEN "ok" ELSE "failed", pdfs,
                     r, st, w)

\* --- 3. Monthly exercise: a stub that only logs
scan_exercise(p) ==
  [p EXCEPT !.pc = "returned",
            !.lastRun = Run("exercise", 0, "none", <<>>, p.state, <<>>, "none",
                            p.lastRun.after)]

\* --- start-up: state = load_state() at import, then notify("started") in main
StartedMsg ==
  <<"U2705"," ","E","V","O"," ","M","o","n","i","t","o","r"," ","s","t","a","r","t","e","d">>

main(p, hook, delivered) ==
  LET ld == load_state(p.file)
      n  == notify(hook, StartedMsg, NoUrl, delivered)
  IN  IF ld.raised
      THEN [p EXCEPT !.pc = "crashed", !.webhook = hook, !.state = EmptyState,
                     !.alerted = EmptyBag,
                     !.lastRun = Run("load", 0, "none", <<>>, EmptyState, <<>>,
                                     "load", "none")]
      ELSE [p EXCEPT !.pc = IF n.raised THEN "crashed" ELSE "returned",
                     !.webhook = hook, !.state = ld.value, !.alerted = EmptyBag,
                     !.lastRun = Run("main", 0, "none", <<>>, ld.value, <<n>>,
                                     IF n.raised THEN "notify" ELSE "none", "none")]

\* the scheduler loop after a job returned: on to the next pending job or
\* tick.  Of the job it keeps only whether it was a scan whose fetch failed.
resume(p) ==
  [p EXCEPT !.pc = "idle",
            !.lastRun = [NoRun EXCEPT !.src = "idle", !.after = FailedSource(p.lastRun)]]

\* the process is stopped from outside; its memory is gone, the file stays
kill(p) ==
  [p EXCEPT !.pc = "stopped", !.state = EmptyState, !.alerted = EmptyBag,
            !.lastRun = NoRun]

\* the number of notify calls a scan of this content makes
EvoCalls(p, fetch) ==
  Len(EvoLoop(fetch.doc, 1, EvoSeen(p.state), <<>>, p.webhook, AllDelivered).events)

TdnetCalls(p, date, fetch) ==
  Len(TdnetLoop(list_today_tdnet_pdfs(date, fetch), 1, TdnetSeen(p.state), <<>>,
                p.webhook, AllDelivered).events)

\* ------------------------------------------------------------ the machine
\* pc: "stopped", "idle" (in the scheduler loop, no job running), "returned"
\* (start-up or a job has just returned to the loop) or "crashed" (an
\* exception left the program); webhook: WEBHOOK_URL is set; state: the
\* module-level dict; file: STATE_FILE; alerted: the notify calls for alerts
\* the running process has made; persisted: the alerts a successful
\* save_state followed, over all runs of the program; lastRun: see Run
Proc ==
  [pc |-> pc, webhook |-> webhook, state |-> state, file |-> file,
   alerted |-> alerted, persisted |-> persisted, lastRun |-> lastRun]

Becomes(q) ==
  /\ pc' = q.pc
  /\ webhook' = q.webhook
  /\ state' = q.state
  /\ file' = q.file
  /\ alerted' = q.alerted
  /\ persisted' = q.persisted
  /\ lastRun' = q.lastRun

\* the program before its first start: no state file yet
Stopped ==
  [pc |-> "stopped", webhook |-> FALSE, state |-> EmptyState, file |-> NoFile,
   alerted |-> EmptyBag, persisted |-> {}, lastRun |-> NoRun]

NoTwin == [pc |-> "off"]

Init ==
  /\ pc = Stopped.pc
  /\ webhook = Stopped.webhook
  /\ state = Stopped.state
  /\ file = Stopped.file
  /\ alerted = Stopped.alerted
  /\ persisted = Stopped.persisted
  /\ lastRun = Stopped.lastRun
  /\ twin = NoTwin

\* the twin is a second installation of the program with its own state file
\* and WEBHOOK_URL unset (a dry run).  When it is switched on it is started,
\* stopped and scheduled together with the process and is given the same
\* clock, the same remote content and the same file system behaviour.
TwinOn == twin.pc # "off"

Start ==
  /\ pc \in {"stopped", "crashed"}
  /\ \E hook \in BOOLEAN, delivered \in BOOLEAN : Becomes(main(Proc, hook, delivered))
  /\ twin' = IF TwinOn /\ twin.pc \in {"stopped", "crashed"}
             THEN main(twin, FALSE, TRUE) ELSE twin

ScanEvoNews ==
  /\ pc = "idle"
  /\ \E fetch \in EvoFetches :
       IF ~fetch.ok
       THEN /\ Becomes(scan_evo_news(Proc, fetch, AllDelivered, "ok"))
            /\ twin' = IF TwinOn /\ twin.pc = "idle"
                       THEN scan_evo_news(twin, fetch, AllDelivered, "ok") ELSE twin
       ELSE \E deliver \in Deliveries(EvoCalls(Proc, fetch)), w \in WriteOutcomes :
              /\ Becomes(scan_evo_news(Proc, fetch, deliver, w))
              /\ twin' = IF TwinOn /\ twin.pc = "idle"
                         THEN scan_evo_news(twin, fetch, AllDelivered, w) ELSE twin

ScanTdnet ==
  /\ pc = "idle"
  /\ \E hour \in Hours, date \in Dates :
       IF ~InWindow(hour)
       THEN /\ Becomes(scan_tdnet(Proc, hour, date, FetchFailed, AllDelivered, "ok"))
            /\ twin' = IF TwinOn /\ twin.pc = "idle"
                       THEN scan_tdnet(twin, hour, date, FetchFailed, AllDelivered, "ok")
                       ELSE twin
       ELSE \E fetch \in TdnetFetches :
              \E deliver \in Deliveries(TdnetCalls(Proc, date, fetch)),
                 w \in WriteOutcomes :
                /\ Becomes(scan_tdnet(Proc, hour, date, fetch, deliver, w))
                /\ twin' = IF TwinOn /\ twin.pc = "idle"
                           THEN scan_tdnet(twin, hour, date, fetch, AllDelivered, w)
                           ELSE twin

ScanExercise ==
  /\ pc = "idle"
  /\ Becomes(scan_exercise(Proc))
  /\ twin' = IF TwinOn /\ twin.pc = "idle" THEN scan_exercise(twin) ELSE twin

Resume ==
  /\ pc = "returned"
  /\ Becomes(resume(Proc))
  /\ twin' = IF TwinOn /\ twin.pc = "returned" THEN resume(twin) ELSE twin

Kill ==
  /\ pc \in {"idle", "returned"}
  /\ Becomes(kill(Proc))
  /\ twin' = IF TwinOn /\ twin.pc \in {"idle", "returned"} THEN kill(twin) ELSE twin

Next == Start \/ ScanEvoNews \/ ScanTdnet \/ ScanExercise \/ Resume \/ Kill

Spec == Init /\ [][Next]_vars

\* the process next to its dry-run twin
InitPair ==
  /\ pc = Stopped.pc
  /\ webhook = Stopped.webhook
  /\ state = Stopped.state
  /\ file = Stopped.file
  /\ alerted = Stopped.alerted
  /\ persisted = Stopped.persisted
  /\ lastRun = Stopped.lastRun
  /\ twin = Stopped

SpecPair == InitPair /\ [][Next]_vars

\* =================================================================== claims
IsScan(r) == r.src \in Sources

\* the positions of the notify calls among events
NotifyIdx(events) == {i \in 1..Len(events) : events[i].ev = "notify"}

\* the URLs run r notified
NotifiedUrls(r) == {r.events[i].url : i \in NotifyIdx(r.events)}

\* state[src]
SeenOf(st, src) == IF src = "evo_news" THEN st.evo_news ELSE st.tdnet

\* the candidates of scan r in page order: dedup key and the scan's keyword test
Candidates(r) ==
  IF r.src = "evo_news"
  THEN [i \in 1..Len(r.page) |->
          [key |-> EvoLinkOf[r.page[i]], relevant |-> EvoRelevantOf[r.page[i]]]]
  ELSE [i \in 1..Len(r.page) |->
          [key |-> r.page[i], relevant |-> TdnetRelevantOf[r.page[i]]]]

\* every relevant candidate of scan r whose key was not in list was notified
NewRelevantNotified(r, list) ==
  \A i \in 1..Len(r.page) :
    (Candidates(r)[i].relevant /\ ~InList(Candidates(r)[i].key, list))
      => Candidates(r)[i].key \in NotifiedUrls(r)

\* C1: within one process at most one alert notification is issued per source
\* and key, and a key that was notified is in that source's list from then on
C1_AtMostOneAlertPerKey ==
  \A e \in BagToSet(alerted) :
    /\ CopiesIn(e, alerted) <= 1
    /\ pc \in {"idle", "returned"} => InList(e[2], SeenOf(state, e[1]))

\* a later scan met a key this process had already alerted and stayed silent
C1_Witness ==
  /\ pc = "returned" /\ IsScan(lastRun) /\ lastRun.fetch = "ok"
  /\ \E i \in 1..Len(lastRun.page) :
       LET c == Candidates(lastRun)[i]
       IN  /\ c.relevant
           /\ <<lastRun.src, c.key>> \in BagToSet(alerted)
           /\ InList(c.key, SeenOf(lastRun.before, lastRun.src))
           /\ c.key \notin NotifiedUrls(lastRun)

\* C2: a key that was alerted in a scan whose save_state succeeded is never
\* notified by a later scan, in the same process or after any restart
C2_NoAlertAfterRestart ==
  [][IsScan(lastRun') =>
       \A k \in AlertKeys(lastRun'.src, lastRun'.events) : k \notin persisted]_vars

\* a restarted process scanned an item alerted and saved by an earlier process
\* and raised nothing for it
C2_Witness ==
  /\ pc = "returned" /\ IsScan(lastRun) /\ lastRun.fetch = "ok"
  /\ \E i \in 1..Len(lastRun.page) :
       LET c == Candidates(lastRun)[i]
       IN  /\ c.relevant
           /\ <<lastRun.src, c.key>> \in persisted
           /\ <<lastRun.src, c.key>> \notin BagToSet(alerted)
           /\ c.key \notin NotifiedUrls(lastRun)

\* some configured keyword is a case-insensitive substring of label
CaseInsensitiveRelevant(label) ==
  \E i \in 1..Len(KEYWORDS) : Contains(Lower(KEYWORDS[i]), Lower(label))

\* C3: the news scan alerts for a list item with a new key exactly when a
\* configured keyword is a case-insensitive substring of its label
C3_CaseInsensitiveRelevance ==
  (lastRun.src = "evo_news" /\ lastRun.fetch = "ok") =>
    \A i \in 1..Len(lastRun.page) :
      LET li  == lastRun.page[i]
          key == EvoLinkOf[li]
      IN  (/\ ~InList(key, lastRun.before.evo_news)
           /\ \A j \in 1..(i - 1) : EvoLinkOf[lastRun.page[j]] # key)
            => ((\E n \in NotifyIdx(lastRun.events) :
                   /\ lastRun.events[n].url = key
                   /\ lastRun.events[n].msg = EvoMsg(li.title))
                <=> CaseInsensitiveRelevant(li.title))

\* C4: a start never aborts in load_state: the process runs afterwards, with an
\* empty store when the state file is missing or does not parse
C4_LoadNeverAborts ==
  lastRun.src \in {"load", "main"} =>
    /\ pc = "returned"
    /\ (~file.exists \/ ~JsonLoads(file.text).ok) => state = EmptyState

\* C5: a failed write of the state file does not leave the scan: the scan
\* returns, has notified every new relevant item, and the process keeps running
C5_SaveFailureContained ==
  (IsScan(lastRun) /\ \E i \in 1..Len(lastRun.events) :
                        lastRun.events[i].ev = "save" /\ lastRun.events[i].out = "failed")
    => /\ lastRun.raised = "none"
       /\ pc = "returned"
       /\ NewRelevantNotified(lastRun, SeenOf(lastRun.before, lastRun.src))

\* C6: a scan whose fetch fails raises no alert, adds no key and lets no
\* exception of the fetch leave it (it returns unless its own save_state
\* raises), and the scan of the other source that follows it alerts for each of
\* its new relevant items
C6_FetchFailureContained ==
  [][/\ (IsScan(lastRun') /\ lastRun'.fetch = "failed") =>
          /\ NotifyIdx(lastRun'.events) = {}
          /\ state' = state
          /\ alerted' = alerted
          /\ lastRun'.raised # "fetch"
          /\ lastRun'.raised = "none" => pc' = "returned"
     /\ (/\ IsScan(lastRun') /\ lastRun'.fetch = "ok"
         /\ lastRun'.after \in Sources \ {lastRun'.src})
          => NewRelevantNotified(lastRun', SeenOf(state, lastRun'.src))]_vars

\* right after a scan whose fetch failed and which left the store of earlier
\* alerts untouched, the scan of the other source ran and alerted for a new item
C6_Witness ==
  /\ IsScan(lastRun) /\ lastRun.fetch = "ok"
  /\ lastRun.after \in Sources \ {lastRun.src}
  /\ pc = "returned"
  /\ lastRun.before # EmptyState
  /\ NotifiedUrls(lastRun) # {}

\* C7: from an empty store, two relevant list items without an anchor and with
\* different labels are both alerted
C7_CompositeKeys ==
  (lastRun.src = "evo_news" /\ lastRun.fetch = "ok" /\ lastRun.before.evo_news = <<>>) =>
    \A i, j \in 1..Len(lastRun.page) :
      LET a == lastRun.page[i]
          b == lastRun.page[j]
      IN  (/\ ~a.a /\ ~b.a /\ a.title # b.title
           /\ EvoRelevantOf[a] /\ EvoRelevantOf[b])
            => \E n \in NotifyIdx(lastRun.events) : lastRun.events[n].msg = EvoMsg(b.title)

\* C8: a scan leaves the other source's key list unchanged, and alerts for and
\* records each relevant candidate whose key is not in its own source's list,
\* whether or not the other source's list holds the same string
C8_KeysPartitionedBySource ==
  [][IsScan(lastRun') =>
       /\ lastRun'.src = "evo_news" => state'.tdnet = state.tdnet
       /\ lastRun'.src = "tdnet" => state'.evo_news = state.evo_news
       /\ lastRun'.fetch = "ok" =>
            /\ NewRelevantNotified(lastRun', SeenOf(state, lastRun'.src))
            /\ \A k \in NotifiedUrls(lastRun') : InList(k, SeenOf(state', lastRun'.src))]_vars

\* the TDnet scan alerted for a URL that the news list already held
C8_Witness ==
  /\ lastRun.src = "tdnet" /\ lastRun.fetch = "ok"
  /\ \E k \in NotifiedUrls(lastRun) :
       /\ InList(k, lastRun.before.evo_news)
       /\ InList(k, state.tdnet)
       /\ InList(k, state.evo_news)

\* C9: next to a dry-run twin given the same inputs, the process makes the same
\* calls with the same content in the same order and holds the same store in
\* memory and on file, whatever WEBHOOK_URL is and however delivery ends; no
\* notify call raises
C9_TransportIndependent ==
  TwinOn =>
    /\ twin.pc = pc
    /\ twin.state = state
    /\ twin.file = file
    /\ twin.alerted = alerted
    /\ twin.persisted = persisted
    /\ lastRun.raised # "notify"
    /\ Len(twin.lastRun.events) = Len(lastRun.events)
    /\ \A i \in 1..Len(lastRun.events) :
         /\ twin.lastRun.events[i].ev = lastRun.events[i].ev
         /\ twin.lastRun.events[i].content = lastRun.events[i].content
         /\ twin.lastRun.events[i].url = lastRun.events[i].url
         /\ lastRun.events[i].ev = "notify" => ~lastRun.events[i].raised

\* the process's post for an alert failed where the twin printed it
C9_Witness ==
  /\ TwinOn /\ webhook /\ IsScan(lastRun)
  /\ \E i \in NotifyIdx(lastRun.events) :
       /\ lastRun.events[i].out = "failed"
       /\ twin.lastRun.events[i].out = "printed"
  /\ twin.state = state /\ state # EmptyState

\* C10 as stated: a successful save_state precedes every notify call of a scan
C10_PersistBeforeNotify ==
  IsScan(lastRun) =>
    \A i \in NotifyIdx(lastRun.events) :
      \E j \in 1..(i - 1) :
        lastRun.events[j].ev = "save" /\ lastRun.events[j].out = "ok"

\* C10 as amended: every notify call of a scan comes before the scan's one
\* save_state call, which is the scan's last call
C10_NotifyBeforePersist ==
  IsScan(lastRun) =>
    /\ \A i \in NotifyIdx(lastRun.events) :
         \E j \in (i + 1)..Len(lastRun.events) : lastRun.events[j].ev = "save"
    /\ \A j \in 1..Len(lastRun.events) :
         lastRun.events[j].ev = "save" => j = Len(lastRun.events)

\* a scan notified an alert and then saved the store that records its key
C10_Witness ==
  /\ IsScan(lastRun) /\ NotifyIdx(lastRun.events) # {}
  /\ lastRun.events[Len(lastRun.events)].ev = "save"
  /\ lastRun.events[Len(lastRun.events)].out = "ok"
  /\ \A k \in NotifiedUrls(lastRun) :
       InList(k, SeenOf(load_state(file).value, lastRun.src))

\* the set of keys state[src] holds
KeySet(st, src) == {SeenOf(st, src)[i] : i \in 1..Len(SeenOf(st, src))}

\* two stores hold the same set of keys for each source
SameKeys(a, b) == \A src \in Sources : KeySet(a, src) = KeySet(b, src)

\* C11: save_state of the store in memory followed by load_state yields the
\* same set of keys for each source, and load_state of the state file followed
\* by save_state with nothing added leaves the file's key sets (and its text)
\* as they were
C11_DedupRoundTrip ==
  /\ LET sv == save_state(file, state, "ok")
         ld == load_state(sv.file)
     IN  ~sv.raised /\ ~ld.raised /\ SameKeys(ld.value, state)
  /\ LET ld == load_state(file)
     IN  ~ld.raised =>
           LET sv   == save_state(file, ld.value, "ok")
               back == load_state(sv.file)
           IN  /\ ~back.raised /\ SameKeys(back.value, ld.value)
               /\ file.exists => sv.file = file

\* a restarted process holds, loaded from the file an earlier process saved, a
\* store with keys of both sources
C11_Witness ==
  /\ lastRun.src = "main" /\ pc = "returned"
  /\ file.exists /\ load_state(file).value = state
  /\ state.evo_news # <<>> /\ state.tdnet # <<>>

\* C12: every payload handed to the webhook transport (requests.post was
\* called with it) is at most 2000 characters long
C12_PayloadWithinLimit ==
  \A i \in NotifyIdx(lastRun.events) :
    lastRun.events[i].out \in {"posted", "failed"}
      => Len(lastRun.events[i].content) <= 2000

\* the fetch of src completed or timed out in job r: a scan job makes the one
\* fetch of its own source
FetchDone(r, src) == r.src = src /\ r.fetch \in {"ok", "failed"}

\* C13: a job that filtered a candidate or checked it against the dedup store
\* did so after the fetches of all configured sources had completed or timed
\* out
C13_FetchThenJoin ==
  (IsScan(lastRun) /\ Len(lastRun.page) > 0)
    => \A src \in Sources : FetchDone(lastRun, src)

\* the notify calls of run r that alert for one of its candidates
AlertIdx(r) ==
  {i \in NotifyIdx(r.events) :
     \E c \in 1..Len(r.page) : Candidates(r)[c].key = r.events[i].url}

\* the other messages run r emitted: the places where a digest could be
DigestIdx(r) == NotifyIdx(r.events) \ AlertIdx(r)

\* C14: a run without alerts emits no digest, and a run with alerts emits a
\* digest that gives the number of alerts of the run's category
C14_DigestCounts ==
  (IsScan(lastRun) /\ lastRun.raised = "none") =>
    /\ AlertIdx(lastRun) = {} => DigestIdx(lastRun) = {}
    /\ AlertIdx(lastRun) # {} =>
         \E d \in DigestIdx(lastRun) :
           Contains(Str(Cardinality(AlertIdx(lastRun))), lastRun.events[d].content)

\* C15: scan_tdnet fetches when the hour h it reads satisfies 8 <= h < 17; at
\* any other hour it makes no fetch and no notify or save_state call and
\* leaves the store in memory and the state file as they were
C15_TdnetHourWindow ==
  [][lastRun'.src = "tdnet" =>
       IF 8 <= lastRun'.hour /\ lastRun'.hour < 17
       THEN lastRun'.fetch \in {"ok", "failed"}
       ELSE /\ lastRun'.fetch = "none"
            /\ lastRun'.events = <<>>
            /\ alerted' = alerted
            /\ state' = state
            /\ file' = file
            /\ pc' = "returned"]_vars

\* scan_tdnet ran at 17:00 in a process that had alerted before and did nothing
C15_Witness ==
  /\ lastRun.src = "tdnet" /\ lastRun.hour = 17 /\ lastRun.fetch = "none"
  /\ pc = "returned"
  /\ file.exists /\ state.tdnet # <<>>

\* C16: while the process runs, each source's key list only grows at its end;
\* a key is added only by the scan of its source, for a relevant candidate that
\* was not in the list, with exactly one notify call made for it in the
\* process; every notified key is added; and the key of a candidate that is
\* not relevant is not added
C16_KeysAddedOnlyByAlerts ==
  [][(pc \in {"idle", "returned"} /\ pc' # "stopped") =>
       \A src \in Sources :
         LET old == SeenOf(state, src)
             new == SeenOf(state', src)
         IN  /\ Len(old) <= Len(new) /\ SubSeq(new, 1, Len(old)) = old
             /\ \A i \in (Len(old) + 1)..Len(new) :
                  /\ lastRun'.src = src
                  /\ ~InList(new[i], old)
                  /\ Cardinality({n \in NotifyIdx(lastRun'.events) :
                                    lastRun'.events[n].url = new[i]}) = 1
                  /\ CopiesIn(<<src, new[i]>>, alerted') = 1
                  /\ \E c \in 1..Len(lastRun'.page) :
                       /\ Candidates(lastRun')[c].key = new[i]
                       /\ Candidates(lastRun')[c].relevant
             /\ lastRun'.src = src =>
                  /\ \A k \in NotifiedUrls(lastRun') : InList(k, new) /\ ~InList(k, old)
                  /\ \A c \in 1..Len(lastRun'.page) :
                       (/\ ~Candidates(lastRun')[c].relevant
                        /\ ~InList(Candidates(lastRun')[c].key, old)
                        /\ \A e \in 1..Len(lastRun'.page) :
                             Candidates(lastRun')[e].relevant
                               => Candidates(lastRun')[e].key # Candidates(lastRun')[c].key)
                         => ~InList(Candidates(lastRun')[c].key, new)]_vars

\* a scan that started from a non-empty list added the key of a relevant
\* candidate and left out the key of one that is not relevant
C16_Witness ==
  /\ pc = "returned" /\ IsScan(lastRun) /\ lastRun.fetch = "ok"
  /\ SeenOf(lastRun.before, lastRun.src) # <<>>
  /\ Len(SeenOf(state, lastRun.src)) > Len(SeenOf(lastRun.before, lastRun.src))
  /\ \E c \in 1..Len(lastRun.page) :
       /\ ~Candidates(lastRun)[c].relevant
       /\ ~InList(Candidates(lastRun)[c].key, SeenOf(state, lastRun.src))

\* C18: whenever the process is in its scheduler loop with no job running,
\* load_state of the state file succeeds and yields the same set of keys for
\* each source as the store in memory
C18_FileAgreesWithMemory ==
  pc \in {"idle", "returned"} =>
    LET ld == load_state(file)
    IN  ~ld.raised /\ SameKeys(ld.value, state)

\* a scan returned early (its fetch failed, or the hour was outside the TDnet
\* window) in a process that holds keys of both sources
C18_Witness ==
  /\ pc = "returned" /\ IsScan(lastRun)
  /\ \/ lastRun.src = "evo_news" /\ lastRun.fetch = "failed"
     \/ lastRun.src = "tdnet" /\ lastRun.fetch = "none"
  /\ state.evo_news # <<>> /\ state.tdnet # <<>>
  /\ file.exists

\* the positions of the notify calls among events whose webhook post failed
FailedIdx(events) == {i \in NotifyIdx(events) : events[i].out = "failed"}

====
